---------------------------- MODULE Spec2Model ----------------------------
(***************************************************************************)
(* A model of the chess rules engine of ChessEngine.py (class GameState    *)
(* and class Move) as driven by the event loop of ChessMain.py.            *)
(*                                                                         *)
(* Pieces are the two-character strings of the source ("wK", "bP", "--"). *)
(* The board is indexed by rows and columns 0..7 as in the source; Python  *)
(* list indexing with a negative index wraps around (index -1 is the last  *)
(* element) and an index above 7 raises IndexError, and both are modelled. *)
(* Python lists are sequences; Python tuples are TLA+ tuples.              *)
(***************************************************************************)
EXTENDS Integers, Sequences, FiniteSets, TLC

\* ------------------------------------------------------------------------
\* Pieces and squares
\* ------------------------------------------------------------------------

\* number of rows and of columns of the board
DIMENSION == 8

WhitePieces == {"wP", "wR", "wN", "wB", "wQ", "wK"}
BlackPieces == {"bP", "bR", "bN", "bB", "bQ", "bK"}

\* piece[0] of the source: the colour character of a cell
Ch0(piece) ==
    IF piece \in WhitePieces THEN "w"
    ELSE IF piece \in BlackPieces THEN "b"
    ELSE "-"

\* piece[1] of the source: the kind character of a cell
Ch1(piece) ==
    IF piece \in {"wP", "bP"} THEN "P"
    ELSE IF piece \in {"wR", "bR"} THEN "R"
    ELSE IF piece \in {"wN", "bN"} THEN "N"
    ELSE IF piece \in {"wB", "bB"} THEN "B"
    ELSE IF piece \in {"wQ", "bQ"} THEN "Q"
    ELSE IF piece \in {"wK", "bK"} THEN "K"
    ELSE "-"

\* 0 <= r < 8 and 0 <= c < 8
OnBoard(r, c) == 0 <= r /\ r < DIMENSION /\ 0 <= c /\ c < DIMENSION

\* a Python list index of a list of 8 elements: a negative index counts
\* from the end
PyIndex(i) == IF i < 0 THEN i + DIMENSION ELSE i

\* a Python list index of a list of 8 elements that raises IndexError
PyRaises(i) == i >= DIMENSION \/ i < 0 - DIMENSION

\* a Python list index that is read without error although it is no row or
\* column of the board
PyWraps(i) == i < 0 /\ i >= 0 - DIMENSION

\* board[r][c] as Python evaluates it (for indices that do not raise)
At(board, r, c) == board[PyIndex(r)][PyIndex(c)]

\* board[r][c] = piece as Python executes it
SetAt(board, r, c, piece) ==
    [board EXCEPT ![PyIndex(r)][PyIndex(c)] = piece]

BoardRow(cells) == [c \in 0..(DIMENSION - 1) |-> cells[c + 1]]

\* GameState.__init__: the standard initial position
InitialBoard ==
    LET rows == << BoardRow(<<"bR", "bN", "bB", "bQ", "bK", "bB", "bN", "bR">>),
                   BoardRow(<<"bP", "bP", "bP", "bP", "bP", "bP", "bP", "bP">>),
                   BoardRow(<<"--", "--", "--", "--", "--", "--", "--", "--">>),
                   BoardRow(<<"--", "--", "--", "--", "--", "--", "--", "--">>),
                   BoardRow(<<"--", "--", "--", "--", "--", "--", "--", "--">>),
                   BoardRow(<<"--", "--", "--", "--", "--", "--", "--", "--">>),
                   BoardRow(<<"wP", "wP", "wP", "wP", "wP", "wP", "wP", "wP">>),
                   BoardRow(<<"wR", "wN", "wB", "wQ", "wK", "wB", "wN", "wR">>) >>
    IN  [r \in 0..(DIMENSION - 1) |-> rows[r + 1]]

\* GameState.__init__: the fields of a fresh GameState
InitialGameState ==
    [board |-> InitialBoard,
     whiteToMove |-> TRUE,
     moveLog |-> << >>,
     whiteKingLocation |-> <<7, 4>>,
     blackKingLocation |-> <<0, 4>>,
     inCheck |-> FALSE,
     pins |-> << >>,
     checks |-> << >>]

\* ------------------------------------------------------------------------
\* class Move
\* ------------------------------------------------------------------------

\* Move.__init__: snapshot the moved and the captured cell from the board
Move(startSq, endSq, board) ==
    [startRow |-> startSq[1],
     startCol |-> startSq[2],
     endRow |-> endSq[1],
     endCol |-> endSq[2],
     pieceMoved |-> At(board, startSq[1], startSq[2]),
     pieceCaptured |-> At(board, endSq[1], endSq[2])]

\* Move.moveID
moveID(move) ==
    move.startRow * 1000 + move.startCol * 100 + move.endRow * 10 + move.endCol

\* Move.__eq__
MoveEq(m1, m2) == moveID(m1) = moveID(m2)

\* ------------------------------------------------------------------------
\* Python list helpers
\* ------------------------------------------------------------------------

\* list.remove(x) for a list of tuples: drop the first element equal to x
RECURSIVE ListRemove(_, _)
ListRemove(list, x) ==
    IF list = << >> THEN << >>
    ELSE IF Head(list) = x THEN Tail(list)
    ELSE <<Head(list)>> \o ListRemove(Tail(list), x)

\* list.remove(x) for a list of Move: drop the first element whose moveID
\* equals that of x
RECURSIVE MovesRemove(_, _)
MovesRemove(list, x) ==
    IF list = << >> THEN << >>
    ELSE IF MoveEq(Head(list), x) THEN Tail(list)
    ELSE <<Head(list)>> \o MovesRemove(Tail(list), x)

\* the elements of a list, as a set
Range(list) == {list[i] : i \in 1..Len(list)}

\* ------------------------------------------------------------------------
\* makeMove / undoMove
\* ------------------------------------------------------------------------

\* makeMove without line 41: the move is not appended to the history
makeMoveNoLog(gs, move) ==
    LET b1 == SetAt(gs.board, move.startRow, move.startCol, "--")
        b2 == SetAt(b1, move.endRow, move.endCol, move.pieceMoved)
    IN  [gs EXCEPT
            !.board = b2,
            !.whiteKingLocation =
                IF move.pieceMoved = "wK" THEN <<move.endRow, move.endCol>> ELSE @,
            !.blackKingLocation =
                IF move.pieceMoved = "wK" THEN @
                ELSE IF move.pieceMoved = "bK" THEN <<move.endRow, move.endCol>>
                ELSE @,
            !.whiteToMove = ~gs.whiteToMove]

\* GameState.makeMove
makeMove(gs, move) ==
    LET b1 == SetAt(gs.board, move.startRow, move.startCol, "--")
        b2 == SetAt(b1, move.endRow, move.endCol, move.pieceMoved)
    IN  [gs EXCEPT
            !.board = b2,
            !.moveLog = Append(gs.moveLog, move),
            !.whiteKingLocation =
                IF move.pieceMoved = "wK" THEN <<move.endRow, move.endCol>> ELSE @,
            !.blackKingLocation =
                IF move.pieceMoved = "wK" THEN @
                ELSE IF move.pieceMoved = "bK" THEN <<move.endRow, move.endCol>>
                ELSE @,
            !.whiteToMove = ~gs.whiteToMove]

\* undoMove that empties the end cell instead of restoring pieceCaptured
undoMoveNoCapture(gs) ==
    IF Len(gs.moveLog) # 0
    THEN LET move == gs.moveLog[Len(gs.moveLog)]
             b1 == SetAt(gs.board, move.startRow, move.startCol, move.pieceMoved)
             b2 == SetAt(b1, move.endRow, move.endCol, "--")
         IN  [gs EXCEPT
                 !.board = b2,
                 !.moveLog = SubSeq(gs.moveLog, 1, Len(gs.moveLog) - 1),
                 !.whiteKingLocation =
                     IF move.pieceMoved = "wK"
                     THEN <<move.startRow, move.startCol>> ELSE @,
                 !.blackKingLocation =
                     IF move.pieceMoved = "wK" THEN @
                     ELSE IF move.pieceMoved = "bK"
                     THEN <<move.startRow, move.startCol>>
                     ELSE @,
                 !.whiteToMove = ~gs.whiteToMove]
    ELSE gs

\* GameState.undoMove
undoMove(gs) ==
    IF Len(gs.moveLog) # 0
    THEN LET move == gs.moveLog[Len(gs.moveLog)]
             b1 == SetAt(gs.board, move.startRow, move.startCol, move.pieceMoved)
             b2 == SetAt(b1, move.endRow, move.endCol, move.pieceCaptured)
         IN  [gs EXCEPT
                 !.board = b2,
                 !.moveLog = SubSeq(gs.moveLog, 1, Len(gs.moveLog) - 1),
                 !.whiteKingLocation =
                     IF move.pieceMoved = "wK"
                     THEN <<move.startRow, move.startCol>> ELSE @,
                 !.blackKingLocation =
                     IF move.pieceMoved = "wK" THEN @
                     ELSE IF move.pieceMoved = "bK"
                     THEN <<move.startRow, move.startCol>>
                     ELSE @,
                 !.whiteToMove = ~gs.whiteToMove]
    ELSE gs

\* ------------------------------------------------------------------------
\* checkForPinsAndChecks
\* ------------------------------------------------------------------------

\* checkForPinsAndChecks: the 8 ray directions, directions[j] for j in 0..7
directions ==
    << <<-1, 0>>, <<0, -1>>, <<1, 0>>, <<0, 1>>,
       <<-1, -1>>, <<-1, 1>>, <<1, -1>>, <<1, 1>> >>

\* checkForPinsAndChecks: the 8 knight offsets, in the order they are probed
knightDirections ==
    << <<2, 1>>, <<2, -1>>, <<-2, 1>>, <<-2, -1>>,
       <<1, 2>>, <<1, -2>>, <<-1, 2>>, <<-1, -2>> >>

enemyColorOf(gs) == IF gs.whiteToMove THEN "b" ELSE "w"
allyColorOf(gs) == IF gs.whiteToMove THEN "w" ELSE "b"
kingLocationOf(gs) ==
    IF gs.whiteToMove THEN gs.whiteKingLocation ELSE gs.blackKingLocation

\* checkForPinsAndChecks, line 143: does the enemy piece of kind type, found
\* i steps along directions[j], attack the king
RayAttacks(j, i, type, enemyColor) ==
    \/ (0 <= j /\ j < 3 /\ type = "R")
    \/ (4 <= j /\ j < 7 /\ type = "B")
    \/ (i = 1 /\ type = "P"
          /\ ((enemyColor = "w" /\ 6 <= j /\ j <= 7)
              \/ (enemyColor = "b" /\ 4 <= j /\ j <= 5)))
    \/ type = "Q"
    \/ (i = 1 /\ type = "K")

\* checkForPinsAndChecks: the inner loop over i in range(1, 8) along
\* directions[j]; acc holds inCheck, pins and checks built so far
RECURSIVE RayScan(_, _, _, _, _)
RayScan(gs, j, i, possiblePin, acc) ==
    IF i >= 8 THEN acc
    ELSE
      LET d == directions[j + 1]
          startRow == kingLocationOf(gs)[1]
          startCol == kingLocationOf(gs)[2]
          endRow == startRow + d[1] * i
          endCol == startCol + d[2] * i
      IN
        IF OnBoard(endRow, endCol)
        THEN
          LET endPiece == At(gs.board, endRow, endCol) IN
            IF Ch0(endPiece) = allyColorOf(gs) /\ Ch1(endPiece) # "K"
            THEN IF possiblePin = << >>
                 THEN RayScan(gs, j, i + 1, <<endRow, endCol, d[1], d[2]>>, acc)
                 ELSE acc
            ELSE IF Ch0(endPiece) = enemyColorOf(gs)
            THEN IF RayAttacks(j, i, Ch1(endPiece), enemyColorOf(gs))
                 THEN IF possiblePin = << >>
                      THEN [acc EXCEPT
                              !.inCheck = TRUE,
                              !.checks = Append(@, <<endRow, endCol, d[1], d[2]>>)]
                      ELSE [acc EXCEPT !.pins = Append(@, possiblePin)]
                 ELSE acc
            ELSE RayScan(gs, j, i + 1, possiblePin, acc)
        ELSE acc

\* checkForPinsAndChecks: the outer loop over j in range(len(directions))
RECURSIVE ScanDirections(_, _, _)
ScanDirections(gs, j, acc) ==
    IF j >= Len(directions) THEN acc
    ELSE ScanDirections(gs, j + 1, RayScan(gs, j, 1, << >>, acc))

\* checkForPinsAndChecks: the loop over knightDirections, from its k-th
\* element on
RECURSIVE KnightScan(_, _, _)
KnightScan(gs, k, acc) ==
    IF k > Len(knightDirections) THEN acc
    ELSE
      LET d == knightDirections[k]
          endRow == kingLocationOf(gs)[1] + d[1]
          endCol == kingLocationOf(gs)[2] + d[2]
      IN
        IF OnBoard(endRow, endCol)
        THEN
          LET endPiece == At(gs.board, endRow, endCol) IN
            IF Ch0(endPiece) = enemyColorOf(gs) /\ Ch1(endPiece) = "N"
            THEN KnightScan(gs, k + 1,
                     [acc EXCEPT
                        !.inCheck = TRUE,
                        !.checks = Append(@, <<endRow, endCol, d[1], d[2]>>)])
            ELSE acc
        ELSE KnightScan(gs, k + 1, acc)

\* GameState.checkForPinsAndChecks: returns inCheck, pins, checks
checkForPinsAndChecks(gs) ==
    KnightScan(gs, 1,
        ScanDirections(gs, 0,
            [inCheck |-> FALSE, pins |-> << >>, checks |-> << >>]))

\* ------------------------------------------------------------------------
\* Piece move generators.  A generator works on a call frame
\*   [gs |-> the GameState, moves |-> the list it appends to,
\*    raised |-> an IndexError was raised, wrapped |-> a negative list
\*    index was read]
\* and returns the frame after the call.
\* ------------------------------------------------------------------------

Frame(gs, moves) ==
    [gs |-> gs, moves |-> moves, raised |-> FALSE, wrapped |-> FALSE]

\* the pin loop of a generator, for i in range(len(self.pins) - 1, -1, -1):
\* the (1-based) position of the last pin of square (row, col), 0 if none
RECURSIVE PinIndex(_, _, _, _)
PinIndex(pins, i, row, col) ==
    IF i < 1 THEN 0
    ELSE IF pins[i][1] = row /\ pins[i][2] = col THEN i
    ELSE PinIndex(pins, i - 1, row, col)

\* the pin loop of a generator: piecePinned, pinDirection and self.pins
\* after it; remove says whether the generator removes the entry it found
PinLookup(pins, row, col, remove) ==
    LET i == PinIndex(pins, Len(pins), row, col) IN
      IF i = 0
      THEN [piecePinned |-> FALSE, pinDirection |-> << >>, pins |-> pins]
      ELSE [piecePinned |-> TRUE,
            pinDirection |-> <<pins[i][3], pins[i][4]>>,
            pins |-> IF remove THEN ListRemove(pins, pins[i]) ELSE pins]

\* getPawnMoves, lines 221-243 (white: fwd = -1, homeRow = 6, enemy = "b")
\* and lines 245-267 (black: fwd = 1, homeRow = 1, enemy = "w"), after the
\* pin loop
PawnBranch(fr, row, col, pin, fwd, homeRow, enemy) ==
    LET board == fr.gs.board
        r1 == row + fwd
        ok(dc) == ~pin.piecePinned \/ pin.pinDirection = <<fwd, dc>>
        advance ==
            IF At(board, r1, col) = "--" /\ ok(0)
            THEN <<Move(<<row, col>>, <<r1, col>>, board)>>
                 \o (IF row = homeRow /\ At(board, row + 2 * fwd, col) = "--"
                     THEN <<Move(<<row, col>>, <<row + 2 * fwd, col>>, board)>>
                     ELSE << >>)
            ELSE << >>
        left ==
            IF col - 1 >= 0 /\ Ch0(At(board, r1, col - 1)) = enemy /\ ok(-1)
            THEN <<Move(<<row, col>>, <<r1, col - 1>>, board)>>
            ELSE << >>
        right ==
            IF col + 1 <= 7 /\ Ch0(At(board, r1, col + 1)) = enemy /\ ok(1)
            THEN <<Move(<<row, col>>, <<r1, col + 1>>, board)>>
            ELSE << >>
    IN
      IF PyRaises(r1)
      THEN [fr EXCEPT !.raised = TRUE]
      ELSE [fr EXCEPT
              !.moves = @ \o advance \o left \o right,
              !.wrapped = @ \/ PyWraps(r1)]

\* GameState.getPawnMoves
getPawnMoves(fr, row, col) ==
    LET pin == PinLookup(fr.gs.pins, row, col, TRUE)
        fr1 == [fr EXCEPT !.gs.pins = pin.pins]
    IN
      IF fr.gs.whiteToMove
      THEN PawnBranch(fr1, row, col, pin, -1, 6, "b")
      ELSE PawnBranch(fr1, row, col, pin, 1, 1, "w")

\* getRookMoves / getBishopMoves: the inner loop over i in range(1, 8) along
\* direction d; the moves it appends
RECURSIVE Slide(_, _, _, _, _, _)
Slide(gs, row, col, d, i, pin) ==
    IF i >= 8 THEN << >>
    ELSE
      LET endRow == row + d[1] * i
          endCol == col + d[2] * i
      IN
        IF OnBoard(endRow, endCol)
        THEN
          IF ~pin.piecePinned \/ pin.pinDirection = d
               \/ pin.pinDirection = <<0 - d[1], 0 - d[2]>>
          THEN
            LET endPiece == At(gs.board, endRow, endCol) IN
              IF endPiece = "--"
              THEN <<Move(<<row, col>>, <<endRow, endCol>>, gs.board)>>
                   \o Slide(gs, row, col, d, i + 1, pin)
              ELSE IF Ch0(endPiece) = enemyColorOf(gs)
              THEN <<Move(<<row, col>>, <<endRow, endCol>>, gs.board)>>
              ELSE << >>
          ELSE Slide(gs, row, col, d, i + 1, pin)
        ELSE << >>

\* getRookMoves / getBishopMoves: the outer loop over the 4 directions
RECURSIVE SlideAll(_, _, _, _, _, _)
SlideAll(gs, row, col, dirs, k, pin) ==
    IF k > Len(dirs) THEN << >>
    ELSE Slide(gs, row, col, dirs[k], 1, pin)
         \o SlideAll(gs, row, col, dirs, k + 1, pin)

\* getRookMoves: directions
rookDirections == << <<-1, 0>>, <<1, 0>>, <<0, -1>>, <<0, 1>> >>

\* getBishopMoves: directions
bishopDirections == << <<-1, -1>>, <<1, -1>>, <<-1, 1>>, <<1, 1>> >>

\* GameState.getRookMoves
getRookMoves(fr, row, col) ==
    LET pin == PinLookup(fr.gs.pins, row, col,
                         Ch1(At(fr.gs.board, row, col)) # "Q")
    IN  [fr EXCEPT
            !.gs.pins = pin.pins,
            !.moves = @ \o SlideAll(fr.gs, row, col, rookDirections, 1, pin)]

\* GameState.getBishopMoves
getBishopMoves(fr, row, col) ==
    LET pin == PinLookup(fr.gs.pins, row, col, TRUE)
    IN  [fr EXCEPT
            !.gs.pins = pin.pins,
            !.moves = @ \o SlideAll(fr.gs, row, col, bishopDirections, 1, pin)]

\* GameState.getQueenMoves
getQueenMoves(fr, row, col) ==
    getRookMoves(getBishopMoves(fr, row, col), row, col)

\* getKnightMoves: the loop over the 8 offsets, from the k-th on; the moves
\* it appends
RECURSIVE KnightLoop(_, _, _, _, _)
KnightLoop(gs, row, col, k, piecePinned) ==
    IF k > Len(knightDirections) THEN << >>
    ELSE
      LET d == knightDirections[k]
          endRow == row + d[1]
          endCol == col + d[2]
      IN
        IF OnBoard(endRow, endCol)
        THEN
          (IF ~piecePinned
              /\ Ch0(At(gs.board, endRow, endCol)) # allyColorOf(gs)
           THEN <<Move(<<row, col>>, <<endRow, endCol>>, gs.board)>>
           ELSE << >>)
          \o KnightLoop(gs, row, col, k + 1, piecePinned)
        ELSE << >>

\* GameState.getKnightMoves
getKnightMoves(fr, row, col) ==
    LET pin == PinLookup(fr.gs.pins, row, col, TRUE)
    IN  [fr EXCEPT
            !.gs.pins = pin.pins,
            !.moves = @ \o KnightLoop(fr.gs, row, col, 1, pin.piecePinned)]

\* getKingMoves: rowMoves and colMoves
rowMoves == <<-1, -1, -1, 0, 0, 1, 1, 1>>
colMoves == <<-1, 0, 1, -1, 1, -1, 0, 1>>

\* getKingMoves: assign the King-location cache of the side to move
SetKingLocation(gs, sq) ==
    IF allyColorOf(gs) = "w"
    THEN [gs EXCEPT !.whiteKingLocation = sq]
    ELSE [gs EXCEPT !.blackKingLocation = sq]

\* KingStep without lines 413-417: the King cache is left on the trial square
KingStepNoRestore(fr, row, col, i) ==
    LET endRow == row + rowMoves[i + 1]
        endCol == col + colMoves[i + 1]
    IN
      IF OnBoard(endRow, endCol)
           /\ Ch0(At(fr.gs.board, endRow, endCol)) # allyColorOf(fr.gs)
      THEN
        LET trial == SetKingLocation(fr.gs, <<endRow, endCol>>)
            res == checkForPinsAndChecks(trial)
        IN  [fr EXCEPT
                !.moves =
                    IF ~res.inCheck
                    THEN Append(@, Move(<<row, col>>, <<endRow, endCol>>,
                                        trial.board))
                    ELSE @,
                !.gs = trial]
      ELSE fr

\* getKingMoves: one iteration of the loop, for the i-th offset (i in 0..7)
KingStep(fr, row, col, i) ==
    LET endRow == row + rowMoves[i + 1]
        endCol == col + colMoves[i + 1]
    IN
      IF OnBoard(endRow, endCol)
           /\ Ch0(At(fr.gs.board, endRow, endCol)) # allyColorOf(fr.gs)
      THEN
        LET trial == SetKingLocation(fr.gs, <<endRow, endCol>>)
            res == checkForPinsAndChecks(trial)
        IN  [fr EXCEPT
                !.moves =
                    IF ~res.inCheck
                    THEN Append(@, Move(<<row, col>>, <<endRow, endCol>>,
                                        trial.board))
                    ELSE @,
                !.gs = SetKingLocation(trial, <<row, col>>)]
      ELSE fr

\* getKingMoves: the loop over i in range(8), from i on
RECURSIVE KingLoop(_, _, _, _)
KingLoop(fr, row, col, i) ==
    IF i >= 8 THEN fr
    ELSE KingLoop(KingStep(fr, row, col, i), row, col, i + 1)

\* GameState.getKingMoves
getKingMoves(fr, row, col) == KingLoop(fr, row, col, 0)

\* self.moveFunction[piece](r, c, moves)
moveFunction(fr, piece, r, c) ==
    CASE piece = "P" -> getPawnMoves(fr, r, c)
      [] piece = "R" -> getRookMoves(fr, r, c)
      [] piece = "N" -> getKnightMoves(fr, r, c)
      [] piece = "B" -> getBishopMoves(fr, r, c)
      [] piece = "Q" -> getQueenMoves(fr, r, c)
      [] piece = "K" -> getKingMoves(fr, r, c)

\* getAllPossibleMoves: the inner loop over c in range(len(self.board[r])),
\* from c on; an IndexError ends it
RECURSIVE ColLoop(_, _, _)
ColLoop(fr, r, c) ==
    IF c >= DIMENSION \/ fr.raised THEN fr
    ELSE
      LET turn == Ch0(fr.gs.board[r][c]) IN
        IF (turn = "w" /\ fr.gs.whiteToMove) \/ (turn = "b" /\ ~fr.gs.whiteToMove)
        THEN ColLoop(moveFunction(fr, Ch1(fr.gs.board[r][c]), r, c), r, c + 1)
        ELSE ColLoop(fr, r, c + 1)

\* getAllPossibleMoves: the outer loop over r in range(len(self.board)),
\* from r on; an IndexError ends it
RECURSIVE RowLoop(_, _)
RowLoop(fr, r) ==
    IF r >= DIMENSION \/ fr.raised THEN fr
    ELSE RowLoop(ColLoop(fr, r, 0), r + 1)

\* GameState.getAllPossibleMoves
getAllPossibleMoves(gs) == RowLoop(Frame(gs, << >>), 0)

\* getValidMoves, lines 84-91: the squares that block or capture a checking
\* piece that is not a knight, from i on
RECURSIVE BlockSquares(_, _, _, _)
BlockSquares(kingRow, kingCol, check, i) ==
    IF i >= 8 THEN << >>
    ELSE
      LET validSquare == <<kingRow + check[3] * i, kingCol + check[4] * i>> IN
        IF validSquare[1] = check[1] /\ validSquare[2] = check[2]
        THEN <<validSquare>>
        ELSE <<validSquare>> \o BlockSquares(kingRow, kingCol, check, i + 1)

\* getValidMoves, lines 94-99: the loop over i in range(len(moves) - 1, -1, -1)
\* that removes the moves that neither move the king nor end on a valid square
RECURSIVE RemoveNonBlocking(_, _, _)
RemoveNonBlocking(moves, i, validSquares) ==
    IF i < 1 THEN moves
    ELSE IF Ch1(moves[i].pieceMoved) # "K"
            /\ <<moves[i].endRow, moves[i].endCol>> \notin Range(validSquares)
    THEN RemoveNonBlocking(MovesRemove(moves, moves[i]), i - 1, validSquares)
    ELSE RemoveNonBlocking(moves, i - 1, validSquares)

\* SingleCheckMoves without the removal loop of lines 94-99
SingleCheckMovesUnfiltered(gs, kingRow, kingCol) ==
    getAllPossibleMoves(gs)

\* getValidMoves, lines 72-99: exactly one check
SingleCheckMoves(gs, kingRow, kingCol) ==
    LET fr == getAllPossibleMoves(gs)
        check == gs.checks[1]
        pieceChecking == At(gs.board, check[1], check[2])
    IN
      IF fr.raised THEN fr
      ELSE IF Ch1(pieceChecking) = "N" THEN fr
      ELSE [fr EXCEPT
              !.moves = RemoveNonBlocking(@, Len(@),
                            BlockSquares(kingRow, kingCol, check, 1))]

\* GameState.getValidMoves: the frame at its return (or at the IndexError)
getValidMoves(gs) ==
    LET res == checkForPinsAndChecks(gs)
        gs1 == [gs EXCEPT !.inCheck = res.inCheck,
                          !.pins = res.pins,
                          !.checks = res.checks]
        kingRow == kingLocationOf(gs1)[1]
        kingCol == kingLocationOf(gs1)[2]
    IN
      IF gs1.inCheck
      THEN IF Len(gs1.checks) = 1
           THEN SingleCheckMoves(gs1, kingRow, kingCol)
           ELSE getKingMoves(Frame(gs1, << >>), kingRow, kingCol)
      ELSE getAllPossibleMoves(gs1)

\* ------------------------------------------------------------------------
\* The program: ChessMain.main drives one GameState
\* ------------------------------------------------------------------------

VARIABLES
    gs,           \* the GameState object of ChessMain.main
    validMoves,   \* ChessMain.main: the list last returned by getValidMoves
    crashed,      \* an uncaught IndexError has ended the program
    wrappedRead,  \* the last getValidMoves call read a negative list index
    netCalls,     \* number of makeMove calls so far minus the number of
                  \* undoMove calls so far that found a non-empty history
    lastCall      \* the last call on gs before getValidMoves: "init",
                  \* "makeMove", "undoMove", or "undoMoveEmpty" for an
                  \* undoMove that found the history empty

vars == <<gs, validMoves, crashed, wrappedRead, netCalls, lastCall>>

\* The games explored: play follows one of the lines of Book, each a list of
\* moves <<startRow, startCol, endRow, endCol>> from the initial position,
\* and may leave it for at most MaxFree moves of any kind.
MaxFree == 1

Book ==
    { \* 1. e4 d5 2. Bb5+ Qd7 3. a3 : a bishop checks the black king, the
      \* queen blocks and is pinned on the diagonal
      << <<6, 4, 4, 4>>, <<1, 3, 3, 3>>, <<7, 5, 3, 1>>, <<0, 3, 1, 3>>,
         <<6, 0, 5, 0>> >>,
      \* 1. f4 e6 2. f5 Nf6 3. a3 Ne4 4. a4 Ng5 5. a5 Nf3+ 6. e4 Qh4+ :
      \* a knight checks the white king, then the queen checks it too
      << <<6, 5, 4, 5>>, <<1, 4, 2, 4>>, <<4, 5, 3, 5>>, <<0, 6, 2, 5>>,
         <<6, 0, 5, 0>>, <<2, 5, 4, 4>>, <<5, 0, 4, 0>>, <<4, 4, 3, 6>>,
         <<4, 0, 3, 0>>, <<3, 6, 5, 5>>, <<6, 4, 4, 4>>, <<0, 3, 4, 7>> >>,
      \* 1. f3 e6 2. f4 Nc6 3. f5 Nb4 4. a3 Nd3+ 5. a4 Qh4+ : a knight on d3
      \* and the queen on h4 both attack the white king
      << <<6, 5, 5, 5>>, <<1, 4, 2, 4>>, <<5, 5, 4, 5>>, <<0, 1, 2, 2>>,
         <<4, 5, 3, 5>>, <<2, 2, 4, 1>>, <<6, 0, 5, 0>>, <<4, 1, 5, 3>>,
         <<5, 0, 4, 0>>, <<0, 3, 4, 7>> >>,
      \* 1. a4 b5 2. axb5 a6 3. bxa6 h6 4. a7 h5 5. axb8 h4 : a white pawn
      \* stands on the farthest rank
      << <<6, 0, 4, 0>>, <<1, 1, 3, 1>>, <<4, 0, 3, 1>>, <<1, 0, 2, 0>>,
         <<3, 1, 2, 0>>, <<1, 7, 2, 7>>, <<2, 0, 1, 0>>, <<2, 7, 3, 7>>,
         <<1, 0, 0, 1>>, <<3, 7, 4, 7>> >>,
      \* 1. a4 b5 2. h3 bxa4 3. h4 a3 4. h5 axb2 5. h6 bxa1 6. hxg7 : a black
      \* pawn stands on the farthest rank
      << <<6, 0, 4, 0>>, <<1, 1, 3, 1>>, <<6, 7, 5, 7>>, <<3, 1, 4, 0>>,
         <<5, 7, 4, 7>>, <<4, 0, 5, 0>>, <<4, 7, 3, 7>>, <<5, 0, 6, 1>>,
         <<3, 7, 2, 7>>, <<6, 1, 7, 0>>, <<2, 7, 1, 6>> >>,
      \* 1. e3 f6 2. Be2 a6 3. Bh5+ : a bishop is the first piece on the
      \* diagonal (1, 1) of the black king
      << <<6, 4, 5, 4>>, <<1, 5, 2, 5>>, <<7, 5, 6, 4>>, <<1, 0, 2, 0>>,
         <<6, 4, 3, 7>> >>,
      \* 1. c3 d6 2. a3 Kd7 3. Qa4+ Ke6 4. Qe8 Ke5 : the black king stands
      \* in front of its pawn on e7 and the white queen behind the pawn
      << <<6, 2, 5, 2>>, <<1, 3, 2, 3>>, <<6, 0, 5, 0>>, <<0, 4, 1, 3>>,
         <<7, 3, 4, 0>>, <<1, 3, 2, 4>>, <<4, 0, 0, 4>>, <<2, 4, 3, 4>> >> }

Coords(move) == <<move.startRow, move.startCol, move.endRow, move.endCol>>

\* the first k moves of the history are the first k moves of a line of Book
InBook(log, k) ==
    \E line \in Book :
        /\ k <= Len(line)
        /\ \A i \in 1..k : Coords(log[i]) = line[i]

\* the number of moves of the history played after it left Book
OffBook(log) ==
    Len(log) - CHOOSE k \in 0..Len(log) :
                  /\ InBook(log, k)
                  /\ \A k2 \in (k + 1)..Len(log) : ~InBook(log, k2)

\* ChessMain.main, lines 80-82: validMoves = gs.getValidMoves(); an
\* IndexError raised in it is not caught and ends the program, validMoves
\* keeping its old value
Refresh(g) ==
    \E fr \in {getValidMoves(g)} :
      /\ gs' = fr.gs
      /\ crashed' = fr.raised
      /\ wrappedRead' = fr.wrapped
      /\ validMoves' = IF fr.raised THEN validMoves ELSE fr.moves

Init ==
    \E fr \in {getValidMoves(InitialGameState)} :
      /\ gs = fr.gs
      /\ validMoves = fr.moves
      /\ crashed = fr.raised
      /\ wrappedRead = fr.wrapped
      /\ netCalls = 0
      /\ lastCall = "init"

\* ChessMain.main, lines 51-70 and 80-82: two clicks on squares of the board
\* name a Move; if it is in validMoves it is made and validMoves is
\* recomputed.  The clicks are given as the member of validMoves they name.
MakeMove(i) ==
    LET startSq == <<validMoves[i].startRow, validMoves[i].startCol>>
        endSq == <<validMoves[i].endRow, validMoves[i].endCol>>
        move == Move(startSq, endSq, gs.board)
    IN
      /\ ~crashed
      /\ OnBoard(startSq[1], startSq[2])
      /\ OnBoard(endSq[1], endSq[2])
      /\ OffBook(Append(gs.moveLog, move)) <= MaxFree
      /\ netCalls' = netCalls + 1
      /\ lastCall' = "makeMove"
      /\ Refresh(makeMove(gs, move))

\* ChessMain.main, lines 75-82: the z key undoes the last move and
\* validMoves is recomputed
UndoMove ==
    /\ ~crashed
    /\ netCalls' = IF Len(gs.moveLog) # 0 THEN netCalls - 1 ELSE netCalls
    /\ lastCall' = IF Len(gs.moveLog) # 0 THEN "undoMove" ELSE "undoMoveEmpty"
    /\ Refresh(undoMove(gs))

Next ==
    \/ \E i \in 1..Len(validMoves) : MakeMove(i)
    \/ UndoMove

Spec == Init /\ [][Next]_vars

\* ------------------------------------------------------------------------
\* The brute-force rules: the pseudo-legal moves of each piece kind and the
\* attack test that replays the opponent's move generation
\* ------------------------------------------------------------------------

Squares == (0..(DIMENSION - 1)) \X (0..(DIMENSION - 1))

Opponent(color) == IF color = "w" THEN "b" ELSE "w"

Cell(board, sq) == board[sq[1]][sq[2]]

\* the squares a ray from sq along d reaches: it stops at the board edge,
\* before a friendly piece, and on an enemy piece
OracleRay(board, sq, d, color) ==
    { <<sq[1] + d[1] * i, sq[2] + d[2] * i>> : i \in
        { i \in 1..(DIMENSION - 1) :
            /\ OnBoard(sq[1] + d[1] * i, sq[2] + d[2] * i)
            /\ Ch0(board[sq[1] + d[1] * i][sq[2] + d[2] * i]) # color
            /\ \A k \in 1..(i - 1) :
                 board[sq[1] + d[1] * k][sq[2] + d[2] * k] = "--" } }

\* the squares at one of the given offsets from sq that are on the board and
\* not friendly-occupied
OracleOffsets(board, sq, offsets, color) ==
    { t \in { <<sq[1] + o[1], sq[2] + o[2]>> : o \in offsets } :
        OnBoard(t[1], t[2]) /\ Ch0(Cell(board, t)) # color }

\* Pawn: single step onto an empty cell, two steps from the starting rank
\* over two empty cells, diagonal capture onto an enemy-occupied cell
OraclePawn(board, sq, color) ==
    LET fwd == IF color = "w" THEN -1 ELSE 1
        homeRow == IF color = "w" THEN 6 ELSE 1
        one == <<sq[1] + fwd, sq[2]>>
        two == <<sq[1] + 2 * fwd, sq[2]>>
        oneFree == OnBoard(one[1], one[2]) /\ Cell(board, one) = "--"
    IN
      (IF oneFree THEN {one} ELSE {})
      \cup (IF oneFree /\ sq[1] = homeRow /\ Cell(board, two) = "--"
            THEN {two} ELSE {})
      \cup { t \in { <<sq[1] + fwd, sq[2] - 1>>, <<sq[1] + fwd, sq[2] + 1>> } :
               OnBoard(t[1], t[2]) /\ Ch0(Cell(board, t)) = Opponent(color) }

\* the destination squares of the pseudo-legal moves of the piece on sq
OracleTargets(board, sq) ==
    LET color == Ch0(Cell(board, sq))
        kind == Ch1(Cell(board, sq))
        orth == UNION { OracleRay(board, sq, d, color) : d \in Range(rookDirections) }
        diag == UNION { OracleRay(board, sq, d, color) : d \in Range(bishopDirections) }
    IN
      CASE kind = "P" -> OraclePawn(board, sq, color)
        [] kind = "R" -> orth
        [] kind = "B" -> diag
        [] kind = "Q" -> orth \cup diag
        [] kind = "N" -> OracleOffsets(board, sq, Range(knightDirections), color)
        [] kind = "K" -> OracleOffsets(board, sq, Range(directions), color)
        [] OTHER -> {}

\* all pseudo-legal moves of the side color
OraclePseudoLegal(board, color) ==
    UNION { { Move(sq, t, board) : t \in OracleTargets(board, sq) } :
              sq \in { sq \in Squares : Ch0(Cell(board, sq)) = color } }

\* the squares holding a King of the side color
KingSquares(board, color) ==
    { sq \in Squares : Cell(board, sq) = (IF color = "w" THEN "wK" ELSE "bK") }

\* the squares of the pieces of the other side that attack the King of color
OracleAttackers(board, color) ==
    { <<m.startRow, m.startCol>> :
        m \in { m \in OraclePseudoLegal(board, Opponent(color)) :
                  <<m.endRow, m.endCol>> \in KingSquares(board, color) } }

\* squareUnderAttack applied to the King of color: some move of the
\* opponent ends on its square
OracleInCheck(board, color) == OracleAttackers(board, color) # {}

\* the board after relocating the moved piece
OracleApply(board, m) ==
    [[board EXCEPT ![m.startRow][m.startCol] = "--"]
        EXCEPT ![m.endRow][m.endCol] = m.pieceMoved]

\* the legal moves: the pseudo-legal moves after which the mover's King is
\* not attacked
OracleLegalMoves(board, color) ==
    { m \in OraclePseudoLegal(board, color) :
        ~OracleInCheck(OracleApply(board, m), color) }

\* ------------------------------------------------------------------------
\* Properties
\* ------------------------------------------------------------------------

sideToMove == IF gs.whiteToMove THEN "w" ELSE "b"

\* the projection of a GameState that makeMove and undoMove work on
Position(g) ==
    <<g.board, g.whiteToMove, g.whiteKingLocation, g.blackKingLocation, g.moveLog>>

\* the standard initial position with White to move and an empty history
AtInitialPosition ==
    gs.board = InitialBoard /\ gs.whiteToMove /\ gs.moveLog = << >>

\* the 16 pawn advances and the 4 knight moves of the initial position
TwentyOpeningMoves ==
    { Move(<<6, c>>, <<5, c>>, InitialBoard) : c \in 0..7 }
    \cup { Move(<<6, c>>, <<4, c>>, InitialBoard) : c \in 0..7 }
    \cup { Move(<<7, 1>>, <<5, 0>>, InitialBoard),
           Move(<<7, 1>>, <<5, 2>>, InitialBoard),
           Move(<<7, 6>>, <<5, 5>>, InitialBoard),
           Move(<<7, 6>>, <<5, 7>>, InitialBoard) }

\* C1: in the standard initial position getValidMoves returns exactly 20
\* moves, the 16 pawn advances and the knight moves b1-a3, b1-c3, g1-f3,
\* g1-h3.
C1_TwentyMovesAtStart ==
    AtInitialPosition =>
        /\ Len(validMoves) = 20
        /\ Range(validMoves) = TwentyOpeningMoves

\* C2: makeMove(m) followed immediately by undoMove() restores the board,
\* the active colour, both King-location caches and the move history: for
\* every move getValidMoves returned for the current position, and for every
\* Move constructed from any two squares of the board in the positions of
\* Book.
C2_MakeUndoRestores ==
    /\ ~crashed =>
          \A i \in 1..Len(validMoves) :
             Position(undoMove(makeMove(gs, validMoves[i]))) = Position(gs)
    /\ OffBook(gs.moveLog) = 0 =>
          \A startSq \in Squares, endSq \in Squares :
             Position(undoMove(makeMove(gs, Move(startSq, endSq, gs.board))))
                = Position(gs)

\* a position reached by play in which validMoves holds a capture and a
\* King move, so that undoMove has a captured piece and a King-location
\* cache to restore
C2_Witness ==
    /\ Len(gs.moveLog) > 0
    /\ ~crashed
    /\ \E i \in 1..Len(validMoves) : validMoves[i].pieceCaptured # "--"
    /\ \E i \in 1..Len(validMoves) : Ch1(validMoves[i].pieceMoved) = "K"

\* C3: the board holds exactly one King of each colour, each King-location
\* cache is the square of its King, and no move of validMoves captures a
\* King.
C3_OneKingEach ==
    /\ KingSquares(gs.board, "w") = {gs.whiteKingLocation}
    /\ KingSquares(gs.board, "b") = {gs.blackKingLocation}
    /\ ~crashed =>
          \A i \in 1..Len(validMoves) : Ch1(validMoves[i].pieceCaptured) # "K"

\* C4: the moves getValidMoves returns are exactly the legal moves of the
\* brute-force rules: the pseudo-legal moves of the side to move after which
\* its own King is not attacked.
C4_SameAsBruteForce ==
    ~crashed => Range(validMoves) = OracleLegalMoves(gs.board, sideToMove)

\* the squares from the King at king to the attacker at attacker, the King's
\* square excluded and the attacker's included, when they share a rank,
\* a file or a diagonal
SegmentTo(king, attacker) ==
    LET dr == attacker[1] - king[1]
        dc == attacker[2] - king[2]
        abs(x) == IF x < 0 THEN 0 - x ELSE x
        sgn(x) == IF x < 0 THEN -1 ELSE IF x > 0 THEN 1 ELSE 0
        n == IF abs(dr) > abs(dc) THEN abs(dr) ELSE abs(dc)
    IN
      IF dr = 0 \/ dc = 0 \/ abs(dr) = abs(dc)
      THEN { <<king[1] + sgn(dr) * k, king[2] + sgn(dc) * k>> : k \in 1..n }
      ELSE {}

\* getValidMoves recorded exactly one check
SingleCheck == ~crashed /\ gs.inCheck /\ Len(gs.checks) = 1

\* the kind of the piece that gives the one recorded check
CheckingKind == Ch1(At(gs.board, gs.checks[1][1], gs.checks[1][2]))

\* C5: with exactly one recorded check, by a piece that is no Knight, every
\* non-King move of validMoves ends on the ray from the King to the attacker
\* (strictly between them or on the attacker's square); the King moves are
\* those the King generator accepts, whatever their destination.
C5_SingleCheckBlocksOrCaptures ==
    (SingleCheck /\ CheckingKind # "N") =>
        /\ \A i \in 1..Len(validMoves) :
              Ch1(validMoves[i].pieceMoved) # "K" =>
                 <<validMoves[i].endRow, validMoves[i].endCol>> \in
                    SegmentTo(kingLocationOf(gs),
                              <<gs.checks[1][1], gs.checks[1][2]>>)
        /\ { m \in Range(validMoves) : Ch1(m.pieceMoved) = "K" } =
              Range(getKingMoves(Frame(gs, << >>), kingLocationOf(gs)[1],
                                 kingLocationOf(gs)[2]).moves)

\* one check by a Bishop, Rook, Queen or Pawn is recorded, and validMoves
\* holds a non-King move although some pseudo-legal non-King move was removed
C5_Witness ==
    /\ SingleCheck
    /\ CheckingKind # "N"
    /\ \E i \in 1..Len(validMoves) : Ch1(validMoves[i].pieceMoved) # "K"
    /\ \E m \in Range(getAllPossibleMoves(gs).moves) : m \notin Range(validMoves)

\* C6: with exactly one recorded check, by a Knight, every non-King move of
\* validMoves ends on the Knight's square.
C6_KnightCheckCaptureOnly ==
    (SingleCheck /\ CheckingKind = "N") =>
        \A i \in 1..Len(validMoves) :
           Ch1(validMoves[i].pieceMoved) # "K" =>
              <<validMoves[i].endRow, validMoves[i].endCol>> =
                 <<gs.checks[1][1], gs.checks[1][2]>>

\* C7: when two enemy pieces attack the King of the side to move, every move
\* of validMoves is a move of that King.
C7_DoubleCheckKingOnly ==
    (~crashed /\ Cardinality(OracleAttackers(gs.board, sideToMove)) >= 2) =>
        \A i \in 1..Len(validMoves) :
           validMoves[i].pieceMoved = (IF gs.whiteToMove THEN "wK" ELSE "bK")

\* C8: getValidMoves completes, reads no board row or column outside 0..7,
\* and returns only moves whose coordinates are within 0..7.
C8_NoOutOfRangeIndex ==
    /\ ~crashed
    /\ ~wrappedRead
    /\ \A i \in 1..Len(validMoves) :
          /\ OnBoard(validMoves[i].startRow, validMoves[i].startCol)
          /\ OnBoard(validMoves[i].endRow, validMoves[i].endCol)

\* C9: the length of moveLog is the number of makeMove calls minus the
\* number of undoMove calls that found a non-empty history, and an undoMove
\* on an empty history changes nothing.
C9_HistoryLength ==
    /\ Len(gs.moveLog) = netCalls
    /\ Len(gs.moveLog) = 0 => Position(undoMove(gs)) = Position(gs)
    /\ lastCall = "undoMoveEmpty" => Position(gs) = Position(InitialGameState)

\* makeMove calls and an equal number of undoMove calls have emptied the
\* history again, so that a further undoMove finds it empty
C9_Witness ==
    lastCall = "undoMove" /\ gs.moveLog = << >> /\ netCalls = 0

\* C10: getValidMoves leaves the board, the active colour, the move history
\* and both King-location caches unchanged, and so does the King generator
\* on its own: every trial placement of the King cache is undone.
C10_GetValidMovesFrame ==
    /\ Position(getValidMoves(gs).gs) = Position(gs)
    /\ Position(getKingMoves(Frame(gs, << >>), kingLocationOf(gs)[1],
                             kingLocationOf(gs)[2]).gs) = Position(gs)

\* getValidMoves took the double-check branch and the King generator
\* accepted one trial square and rejected another
C10_Witness ==
    /\ ~crashed
    /\ Len(gs.checks) >= 2
    /\ Len(validMoves) >= 1
    /\ \E i \in 0..7 :
          LET t == <<kingLocationOf(gs)[1] + rowMoves[i + 1],
                     kingLocationOf(gs)[2] + colMoves[i + 1]>>
          IN  /\ OnBoard(t[1], t[2])
              /\ Ch0(Cell(gs.board, t)) # sideToMove
              /\ \A k \in 1..Len(validMoves) :
                    <<validMoves[k].endRow, validMoves[k].endCol>> # t

\* the distances 1..7 from the square from along direction d at which an
\* on-board cell holds a piece
OccupiedOnRay(board, from, d) ==
    { k \in 1..(DIMENSION - 1) :
        /\ OnBoard(from[1] + d[1] * k, from[2] + d[2] * k)
        /\ At(board, from[1] + d[1] * k, from[2] + d[2] * k) # "--" }

\* the square of the n-th piece met from the square from along direction d,
\* or << >> when the ray holds fewer than n pieces
NthOnRay(board, from, d, n) ==
    LET occ == OccupiedOnRay(board, from, d)
        at  == { k \in occ : Cardinality({ k2 \in occ : k2 <= k }) = n }
    IN  IF at = {} THEN << >>
        ELSE LET k == CHOOSE k \in at : TRUE
             IN  <<from[1] + d[1] * k, from[2] + d[2] * k>>

\* the kind of slider the claims name for direction d: a Rook on the four
\* orthogonal rays, a Bishop on the four diagonal rays
SliderOf(d) == IF d[1] = 0 \/ d[2] = 0 THEN "R" ELSE "B"

\* the first piece on the ray d from the King of the side to move is an
\* enemy Rook (orthogonal d) or Bishop (diagonal d)
DirectSlider(d) ==
    LET first == NthOnRay(gs.board, kingLocationOf(gs), d, 1)
    IN  /\ first # << >>
        /\ At(gs.board, first[1], first[2]) = enemyColorOf(gs) \o SliderOf(d)

\* the first piece on the ray d is a friendly piece that is no King and the
\* second is an enemy Rook (orthogonal d) or Bishop (diagonal d)
ShieldedSlider(d) ==
    LET first  == NthOnRay(gs.board, kingLocationOf(gs), d, 1)
        second == NthOnRay(gs.board, kingLocationOf(gs), d, 2)
    IN  /\ second # << >>
        /\ Ch0(At(gs.board, first[1], first[2])) = allyColorOf(gs)
        /\ Ch1(At(gs.board, first[1], first[2])) # "K"
        /\ At(gs.board, second[1], second[2]) = enemyColorOf(gs) \o SliderOf(d)

\* C11: on each of the eight rays from the King, an enemy Rook (orthogonal
\* ray) or Bishop (diagonal ray) that is the first piece sets inCheck and is
\* recorded in checks with the ray's direction; when exactly one friendly
\* piece that is no King stands between, that piece is recorded in pins with
\* the ray's direction instead.
C11_AllRaysAlike ==
    ~crashed =>
      \A d \in Range(directions) :
        LET res    == checkForPinsAndChecks(gs)
            first  == NthOnRay(gs.board, kingLocationOf(gs), d, 1)
        IN  /\ DirectSlider(d) =>
                 /\ res.inCheck
                 /\ <<first[1], first[2], d[1], d[2]>> \in Range(res.checks)
            /\ ShieldedSlider(d) =>
                 <<first[1], first[2], d[1], d[2]>> \in Range(res.pins)

\* C12: for each of the eight knight offsets from the King, when the offset
\* square is on the board and holds an enemy Knight, checkForPinsAndChecks
\* sets inCheck and records that Knight in checks with the offset, whatever
\* the other seven offset squares hold.
C12_KnightProbesIndependent ==
    ~crashed =>
      \A d \in Range(knightDirections) :
        LET res    == checkForPinsAndChecks(gs)
            endRow == kingLocationOf(gs)[1] + d[1]
            endCol == kingLocationOf(gs)[2] + d[2]
        IN  (/\ OnBoard(endRow, endCol)
             /\ At(gs.board, endRow, endCol) = enemyColorOf(gs) \o "N") =>
               /\ res.inCheck
               /\ <<endRow, endCol, d[1], d[2]>> \in Range(res.checks)

\* the move goes from its start square along direction d or its opposite
OnLine(move, d) ==
    (move.endRow - move.startRow) * d[2] = (move.endCol - move.startCol) * d[1]

\* C13: for every piece that checkForPinsAndChecks records as pinned, every
\* move of that piece in validMoves is parallel to the pin direction or its
\* opposite, and a pinned Knight has no move in validMoves; a pinned Queen
\* is held to this in both halves of its generator.
C13_PinnedStaysOnPinLine ==
    ~crashed =>
      \A pin \in Range(checkForPinsAndChecks(gs).pins) :
        \A i \in 1..Len(validMoves) :
          (validMoves[i].startRow = pin[1] /\ validMoves[i].startCol = pin[2])
            => /\ OnLine(validMoves[i], <<pin[3], pin[4]>>)
               /\ Ch1(validMoves[i].pieceMoved) # "N"

\* C14: when no check is recorded and a Pawn of the side to move is recorded
\* as pinned along its file, in either sense, validMoves holds its one-step
\* advance when the cell ahead is empty, and its two-step advance when the
\* Pawn is on its starting rank and both cells ahead are empty.
C14_FilePinnedPawnAdvances ==
    (~crashed /\ ~gs.inCheck) =>
      \A pin \in Range(checkForPinsAndChecks(gs).pins) :
        LET row     == pin[1]
            col     == pin[2]
            fwd     == IF gs.whiteToMove THEN -1 ELSE 1
            homeRow == IF gs.whiteToMove THEN 6 ELSE 1
        IN  (/\ Ch1(At(gs.board, row, col)) = "P"
             /\ pin[4] = 0
             /\ OnBoard(row + fwd, col)
             /\ At(gs.board, row + fwd, col) = "--") =>
               /\ Move(<<row, col>>, <<row + fwd, col>>, gs.board)
                     \in Range(validMoves)
               /\ (row = homeRow /\ At(gs.board, row + 2 * fwd, col) = "--") =>
                     Move(<<row, col>>, <<row + 2 * fwd, col>>, gs.board)
                        \in Range(validMoves)

=============================================================================
